---- MODULE Spec2Model ----
\* Model of package release (pkg/release/release.go): GitHubLatest and Compare.
\* A Go string is modelled as a sequence of one-character strings, so that the
\* byte-level parsing done by golang.org/x/mod/semver is computed, not assumed.
EXTENDS Integers, Sequences, FiniteSets, TLC

\* ---------------------------------------------------------------- bounds
\* Numeric version components are the multiples k*NumStep, k in 0..MaxNumIdx
\* (with the defaults: 0, 5, 10, so one- and two-digit numbers both occur).
MaxNumIdx == 2
NumStep == 5

\* ------------------------------------------------------------ characters
DigitChars == <<"0", "1", "2", "3", "4", "5", "6", "7", "8", "9">>

\* The bytes the model uses, in increasing byte value (Go compares strings
\* bytewise).
ByteOrder ==
  <<"+", "-", ".", "0", "1", "2", "3", "4", "5", "6", "7", "8", "9",
    "V", "a", "b", "v">>

Ord(c) == CHOOSE i \in 1..Len(ByteOrder) : ByteOrder[i] = c

IsDigit(c) == \E i \in 1..Len(DigitChars) : DigitChars[i] = c

\* Tail of a Go string: v[i:] with a 0-based index i.
From(v, i) == SubSeq(v, i + 1, Len(v))

\* Head of a Go string: v[:i] with a 0-based index i.
Upto(v, i) == SubSeq(v, 1, i)

\* v[i] with a 0-based index i.
At(v, i) == v[i + 1]

\* Go's x < y on strings: bytewise lexicographic order.
RECURSIVE StrLess(_, _)
StrLess(x, y) ==
  IF y = <<>> THEN FALSE
  ELSE IF x = <<>> THEN TRUE
  ELSE IF Ord(x[1]) # Ord(y[1]) THEN Ord(x[1]) < Ord(y[1])
  ELSE StrLess(Tail(x), Tail(y))

\* ------------------------------------------- golang.org/x/mod/semver
\* func isIdentChar(c byte) bool: a letter (those of ByteOrder), a digit or
\* a hyphen.
isIdentChar(c) == c \in {"V", "a", "b", "v", "-"} \/ IsDigit(c)

\* Number of leading digits of v starting at 0-based index i.
RECURSIVE DigitRun(_, _)
DigitRun(v, i) ==
  IF i < Len(v) /\ IsDigit(At(v, i)) THEN DigitRun(v, i + 1) ELSE i

\* func isBadNum(v string) bool: all digits, more than one, leading zero.
isBadNum(v) ==
  LET i == DigitRun(v, 0)
  IN i = Len(v) /\ i > 1 /\ At(v, 0) = "0"

\* func isNum(v string) bool
isNum(v) == DigitRun(v, 0) = Len(v)

NotOk == [t |-> <<>>, rest |-> <<>>, ok |-> FALSE]

\* func parseInt(v string) (t, rest string, ok bool)
parseInt(v) ==
  IF v = <<>> THEN NotOk
  ELSE IF ~IsDigit(At(v, 0)) THEN NotOk
  ELSE LET i == DigitRun(v, 1)
       IN IF At(v, 0) = "0" /\ i # 1 THEN NotOk
          ELSE [t |-> Upto(v, i), rest |-> From(v, i), ok |-> TRUE]

\* The loop of parsePrerelease: the index where the prerelease ends, or -1
\* when an identifier is malformed.
RECURSIVE PrereleaseScan(_, _, _)
PrereleaseScan(v, i, start) ==
  IF i < Len(v) /\ At(v, i) # "+"
  THEN IF ~isIdentChar(At(v, i)) /\ At(v, i) # "." THEN -1
       ELSE IF At(v, i) = "."
            THEN IF start = i \/ isBadNum(SubSeq(v, start + 1, i)) THEN -1
                 ELSE PrereleaseScan(v, i + 1, i + 1)
            ELSE PrereleaseScan(v, i + 1, start)
  ELSE IF start = i \/ isBadNum(SubSeq(v, start + 1, i)) THEN -1
       ELSE i

\* func parsePrerelease(v string) (t, rest string, ok bool)
parsePrerelease(v) ==
  IF v = <<>> \/ At(v, 0) # "-" THEN NotOk
  ELSE LET i == PrereleaseScan(v, 1, 1)
       IN IF i < 0 THEN NotOk
          ELSE [t |-> Upto(v, i), rest |-> From(v, i), ok |-> TRUE]

\* The loop of parseBuild: the index where the build metadata ends (always the
\* end of the string), or -1 when an identifier is malformed.
RECURSIVE BuildScan(_, _, _)
BuildScan(v, i, start) ==
  IF i < Len(v)
  THEN IF ~isIdentChar(At(v, i)) /\ At(v, i) # "." THEN -1
       ELSE IF At(v, i) = "."
            THEN IF start = i THEN -1 ELSE BuildScan(v, i + 1, i + 1)
            ELSE BuildScan(v, i + 1, start)
  ELSE IF start = i THEN -1 ELSE i

\* func parseBuild(v string) (t, rest string, ok bool)
parseBuild(v) ==
  IF v = <<>> \/ At(v, 0) # "+" THEN NotOk
  ELSE LET i == BuildScan(v, 1, 1)
       IN IF i < 0 THEN NotOk
          ELSE [t |-> Upto(v, i), rest |-> From(v, i), ok |-> TRUE]

Zero == <<"0">>

Bad == [major |-> <<>>, minor |-> <<>>, patch |-> <<>>,
        prerelease |-> <<>>, build |-> <<>>, ok |-> FALSE]

\* The tail of parse, after the patch number: optional prerelease, optional
\* build metadata, then nothing.
parseSuffix(major, minor, patch, v) ==
  LET pre == IF Len(v) > 0 /\ At(v, 0) = "-" THEN parsePrerelease(v)
             ELSE [t |-> <<>>, rest |-> v, ok |-> TRUE]
  IN IF ~pre.ok THEN Bad
     ELSE LET bld == IF Len(pre.rest) > 0 /\ At(pre.rest, 0) = "+"
                     THEN parseBuild(pre.rest)
                     ELSE [t |-> <<>>, rest |-> pre.rest, ok |-> TRUE]
          IN IF ~bld.ok THEN Bad
             ELSE IF bld.rest # <<>> THEN Bad
             ELSE [major |-> major, minor |-> minor, patch |-> patch,
                   prerelease |-> pre.t, build |-> bld.t, ok |-> TRUE]

\* func parse(v string) (p parsed, ok bool)
parse(v) ==
  IF v = <<>> \/ At(v, 0) # "v" THEN Bad
  ELSE LET ma == parseInt(From(v, 1))
       IN IF ~ma.ok THEN Bad
          ELSE IF ma.rest = <<>>
          THEN [major |-> ma.t, minor |-> Zero, patch |-> Zero,
                prerelease |-> <<>>, build |-> <<>>, ok |-> TRUE]
          ELSE IF At(ma.rest, 0) # "." THEN Bad
          ELSE LET mi == parseInt(From(ma.rest, 1))
               IN IF ~mi.ok THEN Bad
                  ELSE IF mi.rest = <<>>
                  THEN [major |-> ma.t, minor |-> mi.t, patch |-> Zero,
                        prerelease |-> <<>>, build |-> <<>>, ok |-> TRUE]
                  ELSE IF At(mi.rest, 0) # "." THEN Bad
                  ELSE LET pa == parseInt(From(mi.rest, 1))
                       IN IF ~pa.ok THEN Bad
                          ELSE parseSuffix(ma.t, mi.t, pa.t, pa.rest)

\* IsValid with the "v" prefix optional.
IsValidOptionalV(v) == parse(v).ok \/ parse(<<"v">> \o v).ok

\* func IsValid(v string) bool
IsValid(v) == parse(v).ok

\* compareInt without the length test: digit strings compared as text.
compareIntLexical(x, y) ==
  IF x = y THEN 0
  ELSE IF StrLess(x, y) THEN -1
  ELSE 1

\* func compareInt(x, y string) int
compareInt(x, y) ==
  IF x = y THEN 0
  ELSE IF Len(x) < Len(y) THEN -1
  ELSE IF Len(x) > Len(y) THEN 1
  ELSE IF StrLess(x, y) THEN -1
  ELSE 1

\* Length of the identifier at the head of x (up to the next dot).
RECURSIVE IdentRun(_, _)
IdentRun(x, i) ==
  IF i < Len(x) /\ At(x, i) # "." THEN IdentRun(x, i + 1) ELSE i

\* func nextIdent(x string) (dx, rest string)
nextIdent(x) ==
  LET i == IdentRun(x, 0)
  IN [dx |-> Upto(x, i), rest |-> From(x, i)]

\* compareIdent that ranks a numeric identifier low whichever side it is on.
compareIdentBiased(dx, dy) ==
  IF isNum(dx) # isNum(dy) THEN -1
  ELSE IF isNum(dx) /\ Len(dx) < Len(dy) THEN -1
  ELSE IF isNum(dx) /\ Len(dx) > Len(dy) THEN 1
  ELSE IF StrLess(dx, dy) THEN -1
  ELSE 1

\* The comparison of two differing prerelease identifiers.
compareIdent(dx, dy) ==
  LET ix == isNum(dx)
      iy == isNum(dy)
  IN IF ix # iy THEN (IF ix THEN -1 ELSE 1)
     ELSE IF ix /\ Len(dx) < Len(dy) THEN -1
     ELSE IF ix /\ Len(dx) > Len(dy) THEN 1
     ELSE IF StrLess(dx, dy) THEN -1
     ELSE 1

\* The loop of comparePrerelease.
RECURSIVE comparePrereleaseLoop(_, _)
comparePrereleaseLoop(x, y) ==
  IF x # <<>> /\ y # <<>>
  THEN LET nx == nextIdent(From(x, 1))
           ny == nextIdent(From(y, 1))
       IN IF nx.dx # ny.dx THEN compareIdent(nx.dx, ny.dx)
          ELSE comparePrereleaseLoop(nx.rest, ny.rest)
  ELSE IF x = <<>> THEN -1 ELSE 1

\* comparePrerelease with the two "no prerelease" cases exchanged.
comparePrereleaseSwapped(x, y) ==
  IF x = y THEN 0
  ELSE IF x = <<>> THEN -1
  ELSE IF y = <<>> THEN 1
  ELSE comparePrereleaseLoop(x, y)

\* func comparePrerelease(x, y string) int
comparePrerelease(x, y) ==
  IF x = y THEN 0
  ELSE IF x = <<>> THEN 1
  ELSE IF y = <<>> THEN -1
  ELSE comparePrereleaseLoop(x, y)

\* semver.Compare that goes on to compare the build metadata.
semverCompareWithBuild(v, w) ==
  LET pv == parse(v)
      pw == parse(w)
  IN IF ~pv.ok /\ ~pw.ok THEN 0
     ELSE IF ~pv.ok THEN -1
     ELSE IF ~pw.ok THEN 1
     ELSE IF compareInt(pv.major, pw.major) # 0
          THEN compareInt(pv.major, pw.major)
     ELSE IF compareInt(pv.minor, pw.minor) # 0
          THEN compareInt(pv.minor, pw.minor)
     ELSE IF compareInt(pv.patch, pw.patch) # 0
          THEN compareInt(pv.patch, pw.patch)
     ELSE IF comparePrerelease(pv.prerelease, pw.prerelease) # 0
          THEN comparePrerelease(pv.prerelease, pw.prerelease)
     ELSE IF pv.build = pw.build THEN 0
     ELSE IF StrLess(pv.build, pw.build) THEN -1
     ELSE 1

\* func Compare(v, w string) int   (package semver)
semverCompare(v, w) ==
  LET pv == parse(v)
      pw == parse(w)
  IN IF ~pv.ok /\ ~pw.ok THEN 0
     ELSE IF ~pv.ok THEN -1
     ELSE IF ~pw.ok THEN 1
     ELSE IF compareInt(pv.major, pw.major) # 0
          THEN compareInt(pv.major, pw.major)
     ELSE IF compareInt(pv.minor, pw.minor) # 0
          THEN compareInt(pv.minor, pw.minor)
     ELSE IF compareInt(pv.patch, pw.patch) # 0
          THEN compareInt(pv.patch, pw.patch)
     ELSE comparePrerelease(pv.prerelease, pw.prerelease)

\* ---------------------------------------------------------------- inputs
\* Decimal rendering of a natural number.
RECURSIVE Dec(_)
Dec(n) ==
  IF n < 10 THEN <<DigitChars[n + 1]>>
  ELSE Dec(n \div 10) \o <<DigitChars[(n % 10) + 1]>>

\* The elements of a sequence of strings, joined by dots.
RECURSIVE Join(_)
Join(parts) ==
  IF Len(parts) = 0 THEN <<>>
  ELSE IF Len(parts) = 1 THEN parts[1]
  ELSE parts[1] \o <<".">> \o Join(Tail(parts))

NumToks == {Dec(k * NumStep) : k \in 0..MaxNumIdx}

\* major, major.minor and major.minor.patch over NumToks.
Cores == {Join(c) : c \in UNION {[1..k -> NumToks] : k \in 1..3}}

\* The cores 0.0.0 and n.n.n (n two digits long), which the suffixed inputs
\* are built on.
DiagCores == {Join(<<n, n, n>>) : n \in {Dec(0), Dec(2 * NumStep)}}

PreIdentToks == {<<"5">>, <<"1", "0">>, <<"a">>}

\* Prereleases of one or two identifiers, with the leading hyphen.
Pres ==
  {<<"-">> \o Join(ids) :
     ids \in UNION {[1..k -> PreIdentToks] : k \in 1..2}}

\* Build metadata, with the leading plus; the empty string is "none".
Builds == {<<>>, <<"+", "b">>, <<"+", "0", "5">>}

\* Strings that golang.org/x/mod/semver accepts (all carry the v prefix).
PlainInputs == {<<"v">> \o c : c \in Cores}

SuffixedInputs ==
  {<<"v">> \o c \o p \o b : c \in DiagCores, p \in Pres \cup {<<>>}, b \in Builds}

\* The same shapes without the v prefix.
BareInputs ==
  {c \o p \o b :
     c \in DiagCores, p \in {<<>>, <<"-", "a">>}, b \in {<<>>, <<"+", "b">>}}

\* Malformed strings, one per way of being malformed.
MalformedInputs ==
  { <<>>,
    <<"v">>,
    <<"V", "5", ".", "5", ".", "5">>,
    <<"v", "v", "5", ".", "5", ".", "5">>,
    <<"v", ".", "5", ".", "5">>,
    <<"v", "5", ".">>,
    <<"v", "5", ".", "5", ".">>,
    <<"v", "0", "5", ".", "5", ".", "5">>,
    <<"v", "5", ".", "0", "5", ".", "5">>,
    <<"v", "5", ".", "5", ".", "0", "0">>,
    <<"v", "5", ".", "5", ".", "5", ".", "5">>,
    <<"v", "5", ".", "5", ".", "5", "a">>,
    <<"v", "5", ".", "5", ".", "5", "-">>,
    <<"v", "5", ".", "5", ".", "5", "-", "0", "5">>,
    <<"v", "5", ".", "5", ".", "5", "-", "a", ".">>,
    <<"v", "5", ".", "5", ".", "5", "-", ".", "a">>,
    <<"v", "5", ".", "5", ".", "5", "-", "a", "+">>,
    <<"v", "5", ".", "5", ".", "5", "+">>,
    <<"v", "5", ".", "5", ".", "5", "+", "b", "+", "b">>,
    <<"v", "5", ".", "5", ".", "5", "+", "b", ".">>,
    <<"v", "5", "-", "a">>,
    <<"v", "5", ".", "5", "-", "a">>,
    <<"v", "5", ".", "5", "+", "b">>,
    <<"v", "a">>,
    <<"a", "-", "a", "-", "v">> }

\* Unusual strings that are nevertheless well formed.
EdgeInputs ==
  { <<"v", "5", ".", "5", ".", "5", "+", "b", "-", "a">>,
    <<"v", "5", ".", "5", ".", "5", "-", "-">>,
    <<"v", "5", ".", "5", ".", "5", "-", "0", "5", "a">>,
    <<"v", "5", ".", "5", ".", "5", "-", "0">>,
    <<"v", "5", ".", "5", ".", "5", "-", "V", ".", "v">> }

VersionInputs ==
  PlainInputs \cup SuffixedInputs \cup EdgeInputs \cup BareInputs
    \cup MalformedInputs

\* ------------------------------------------------------ encoding/json
\* A response body is modelled as its sequence of JSON tokens; a string token
\* carries its (already unescaped) content.
Punct(x) == [t |-> x, s |-> <<>>]

StrTok(chars) == [t |-> "str", s |-> chars]

\* A byte that starts no JSON value (for instance the "<" of an HTML page).
Junk == Punct("junk")

\* The key of the struct tag `json:"tag_name"`.
TagKey == <<"t", "a", "g", "_", "n", "a", "m", "e">>

\* encoding/json matches object keys to struct fields ignoring case.
Lower(c) ==
  CASE c = "T" -> "t"
    [] c = "N" -> "n"
    [] OTHER -> c

foldName(key) == [i \in DOMAIN key |-> Lower(key[i])]

\* The scanner: the index of the token after the JSON value that starts at
\* token i (1-based), or 0 when the value is malformed or cut short.
RECURSIVE SkipValue(_, _), SkipItems(_, _), SkipMembers(_, _)
SkipValue(b, i) ==
  IF i > Len(b) THEN 0
  ELSE IF b[i].t \in {"str", "num", "null"} THEN i + 1
  ELSE IF b[i].t = "["
       THEN IF i + 1 <= Len(b) /\ b[i + 1].t = "]" THEN i + 2
            ELSE SkipItems(b, i + 1)
  ELSE IF b[i].t = "{"
       THEN IF i + 1 <= Len(b) /\ b[i + 1].t = "}" THEN i + 2
            ELSE SkipMembers(b, i + 1)
  ELSE 0

SkipItems(b, i) ==
  LET j == SkipValue(b, i)
  IN IF j = 0 \/ j > Len(b) THEN 0
     ELSE IF b[j].t = "," THEN SkipItems(b, j + 1)
     ELSE IF b[j].t = "]" THEN j + 1
     ELSE 0

SkipMembers(b, i) ==
  IF i + 1 > Len(b) \/ b[i].t # "str" \/ b[i + 1].t # ":" THEN 0
  ELSE LET j == SkipValue(b, i + 2)
       IN IF j = 0 \/ j > Len(b) THEN 0
          ELSE IF b[j].t = "," THEN SkipMembers(b, j + 1)
          ELSE IF b[j].t = "}" THEN j + 1
          ELSE 0

\* Unmarshal of one object member into struct Response: a key that matches
\* tag_name sets TagName from a string, leaves it alone for null and records
\* a type error for anything else; other keys are skipped.
StoreMember(acc, key, val) ==
  IF foldName(key) # foldName(TagKey) THEN acc
  ELSE IF val.t = "str" THEN [acc EXCEPT !.TagName = val.s]
  ELSE IF val.t = "null" THEN acc
  ELSE [acc EXCEPT !.typeErr = TRUE]

\* Unmarshal of the members of a well-formed object, in order, from token i.
RECURSIVE DecodeMembers(_, _, _)
DecodeMembers(b, i, acc) ==
  LET j == SkipValue(b, i + 2)
      next == StoreMember(acc, b[i].s, b[i + 2])
  IN IF b[j].t = "," THEN DecodeMembers(b, j + 1, next) ELSE next

\* decoder.Decode(&response) on a body: the resulting Response.TagName and the
\* error ("nil", "eof", "syntax" or "type"). Decode reads one JSON value and
\* does not look at what follows it.
Decode(b) ==
  IF b = <<>> THEN [TagName |-> <<>>, err |-> "eof"]
  ELSE IF SkipValue(b, 1) = 0 THEN [TagName |-> <<>>, err |-> "syntax"]
  ELSE IF b[1].t = "null" THEN [TagName |-> <<>>, err |-> "nil"]
  ELSE IF b[1].t # "{" THEN [TagName |-> <<>>, err |-> "type"]
  ELSE IF b[2].t = "}" THEN [TagName |-> <<>>, err |-> "nil"]
  ELSE LET r == DecodeMembers(b, 2, [TagName |-> <<>>, typeErr |-> FALSE])
       IN [TagName |-> r.TagName, err |-> IF r.typeErr THEN "type" ELSE "nil"]

\* ------------------------------------------------- what the server sends
MaxFields == 2

TagA == <<"v", "5", ".", "5", ".", "5">>

\* A tag that is no semver string: leading blank, no v, two components.
TagB == <<" ", "5", ".", "5">>

FoldedKey == <<"T", "a", "g", "_", "N", "a", "m", "e">>

OtherKey == <<"n", "a", "m", "e">>

\* A JSON value: a string s, null, a number, the array [s] or the object
\* {"tag_name": s}.
Val(k, s) == [k |-> k, s |-> s]

Members ==
  {[key |-> TagKey, val |-> v] :
     v \in {Val("str", TagA), Val("str", TagB), Val("str", <<>>),
            Val("null", <<>>), Val("num", <<>>)}}
  \cup
  {[key |-> FoldedKey, val |-> v] : v \in {Val("str", TagB), Val("num", <<>>)}}
  \cup
  {[key |-> OtherKey, val |-> v] : v \in {Val("obj", TagA)}}

\* A document: a JSON object with up to MaxFields members, another JSON value,
\* an HTML page, nothing at all, or a body that never finishes arriving; and
\* how its serialisation is damaged on the way.
ObjectDocs ==
  {[top |-> "obj", members |-> m, val |-> Val("null", <<>>)] :
     m \in UNION {[1..k -> Members] : k \in 0..MaxFields}}

ValueDocs ==
  {[top |-> "val", members |-> <<>>, val |-> v] :
     v \in {Val("null", <<>>), Val("str", TagA), Val("num", <<>>),
            Val("arr", TagA)}}

OtherDocs ==
  {[top |-> k, members |-> <<>>, val |-> Val("null", <<>>)] :
     k \in {"html", "empty", "stalled"}}

Docs ==
  {[doc |-> d, damage |-> g] :
     d \in ObjectDocs \cup ValueDocs, g \in {"none", "truncated", "trailing"}}
  \cup {[doc |-> d, damage |-> "none"] : d \in OtherDocs}

\* json.Marshal of a value, as tokens.
EncodeVal(v) ==
  CASE v.k = "str" -> <<StrTok(v.s)>>
    [] v.k = "null" -> <<Punct("null")>>
    [] v.k = "num" -> <<Punct("num")>>
    [] v.k = "arr" -> <<Punct("["), StrTok(v.s), Punct("]")>>
    [] v.k = "obj" ->
         <<Punct("{"), StrTok(TagKey), Punct(":"), StrTok(v.s), Punct("}")>>

RECURSIVE EncodeMembers(_)
EncodeMembers(m) ==
  IF m = <<>> THEN <<>>
  ELSE <<StrTok(m[1].key), Punct(":")>> \o EncodeVal(m[1].val)
       \o (IF Len(m) > 1 THEN <<Punct(",")>> ELSE <<>>)
       \o EncodeMembers(Tail(m))

EncodeDoc(d) ==
  CASE d.top = "obj" ->
         <<Punct("{")>> \o EncodeMembers(d.members) \o <<Punct("}")>>
    [] d.top = "val" -> EncodeVal(d.val)
    [] d.top = "html" -> <<Junk, StrTok(TagKey), Junk>>
    [] OTHER -> <<>>

\* The tokens that arrive: the serialisation, possibly cut short by one token
\* or followed by a stray byte.
Wire(x) ==
  LET e == EncodeDoc(x.doc)
  IN CASE x.damage = "none" -> e
       [] x.damage = "truncated" -> SubSeq(e, 1, Len(e) - 1)
       [] x.damage = "trailing" -> e \o <<Junk>>

\* ----------------------------------------------------------------- state
VARIABLES
  pc,        \* Compare: "idle", "call" before it runs, "done" after it returned
  curV,      \* Compare's first argument (the installed version)
  latestV,   \* Compare's second argument (the latest version)
  cmp,       \* Compare's int result
  cmpErr,    \* Compare's error result
  gpc,       \* GitHubLatest: "idle", "start", "waiting" (inside client.Do), "done"
  owner,     \* GitHubLatest's first argument
  repo,      \* GitHubLatest's second argument
  requests,  \* number of HTTP GET requests put on the wire so far
  resp,      \* the response client.Do returned: its status and what was sent
  tag,       \* GitHubLatest's string result
  err        \* GitHubLatest's error result

cvars == <<pc, curV, latestV, cmp, cmpErr>>

fvars == <<gpc, owner, repo, requests, resp, tag, err>>

vars == <<cvars, fvars>>

\* The nil error, and an error made by fmt.Errorf: its message prefix and
\* what the message goes on to name.
Nil == [kind |-> "nil", names |-> <<>>]

Errorf(kind, names) == [kind |-> kind, names |-> names]

\* fmt.Errorf("installed version is not a valid semver: %s", curV)
InstalledError(v) == Errorf("installed version is not a valid semver", v)

\* fmt.Errorf("latest version is not a valid semver: %s", latestV)
LatestError(v) == Errorf("latest version is not a valid semver", v)

NoDoc ==
  [doc |-> [top |-> "none", members |-> <<>>, val |-> Val("null", <<>>)],
   damage |-> "none"]

NoResp == [status |-> 0, sent |-> NoDoc]

CompareIdle ==
  /\ pc = "idle"
  /\ curV = <<>>
  /\ latestV = <<>>
  /\ cmp = 0
  /\ cmpErr = Nil

FetchIdle ==
  /\ gpc = "idle"
  /\ owner = ""
  /\ repo = ""
  /\ requests = 0
  /\ resp = NoResp
  /\ tag = <<>>
  /\ err = Nil

\* -------------------------------------------------------------- Compare
InitCompare ==
  /\ pc = "call"
  /\ curV \in VersionInputs
  /\ latestV \in VersionInputs
  /\ cmp = 0
  /\ cmpErr = Nil
  /\ FetchIdle

\* if !semver.IsValid(curV) { return 0, fmt.Errorf(...) }
CompareInstalledInvalid ==
  /\ pc = "call"
  /\ ~IsValid(curV)
  /\ cmp' = 0
  /\ cmpErr' = InstalledError(curV)
  /\ pc' = "done"
  /\ UNCHANGED <<curV, latestV, fvars>>

\* The check of latestV done without regard to the check of curV.
CompareLatestInvalidUnordered ==
  /\ pc = "call"
  /\ ~IsValid(latestV)
  /\ cmp' = 0
  /\ cmpErr' = Errorf("latest version is not a valid semver", latestV)
  /\ pc' = "done"
  /\ UNCHANGED <<curV, latestV, fvars>>

\* if !semver.IsValid(latestV) { return 0, fmt.Errorf(...) }
CompareLatestInvalid ==
  /\ pc = "call"
  /\ IsValid(curV)
  /\ ~IsValid(latestV)
  /\ cmp' = 0
  /\ cmpErr' = LatestError(latestV)
  /\ pc' = "done"
  /\ UNCHANGED <<curV, latestV, fvars>>

\* return semver.Compare(curV, latestV), nil
CompareValid ==
  /\ pc = "call"
  /\ IsValid(curV)
  /\ IsValid(latestV)
  /\ cmp' = semverCompare(curV, latestV)
  /\ cmpErr' = Nil
  /\ pc' = "done"
  /\ UNCHANGED <<curV, latestV, fvars>>

NextCompare ==
  \/ CompareInstalledInvalid
  \/ CompareLatestInvalid
  \/ CompareValid

SpecCompare == InitCompare /\ [][NextCompare]_vars

\* --------------------------------------------------------- GitHubLatest
Owners == {"marco-m", "a\nb"}

Repos == {"taschino", "timeit"}

\* fmt.Sprintf("https://api.github.com/repos/%s/%s/releases/latest", owner, repo)
ApiUrl(o, r) ==
  <<"https://api.github.com/repos/", o, "/", r, "/releases/latest">>

\* http.NewRequestWithContext fails when the URL does not parse, which is so
\* when it holds an ASCII control character.
BadUrl(url) == \E i \in DOMAIN url : url[i] \in {"a\nb"}

StatusNotFound == 404

Statuses == {200, 301, StatusNotFound, 500}

\* The default redirect policy of http.Client: at most this many requests.
RedirectLimit == 10

\* HandleResponse that decodes the body before it looks at the status.
HandleResponseDecodeFirst(url, status, sent) ==
  LET response == Decode(Wire(sent))
  IN IF sent.doc.top = "stalled" \/ response.err # "nil"
     THEN [tag |-> <<>>,
           err |-> Errorf("parsing JSON response", <<response.err>>)]
     ELSE IF status = 404
     THEN [tag |-> <<>>, err |-> Errorf("no release found at", url)]
     ELSE IF response.TagName = <<>>
     THEN [tag |-> <<>>,
           err |-> Errorf("parsing JSON response",
                          <<"missing 'field tag_name'">>)]
     ELSE [tag |-> response.TagName, err |-> Nil]

\* HandleResponse that rejects a tag that is no semver string.
HandleResponseSemverOnly(url, status, sent) ==
  LET response == Decode(Wire(sent))
  IN IF status = 404
     THEN [tag |-> <<>>, err |-> Errorf("no release found at", url)]
     ELSE IF sent.doc.top = "stalled" \/ response.err # "nil"
     THEN [tag |-> <<>>,
           err |-> Errorf("parsing JSON response", <<response.err>>)]
     ELSE IF ~IsValid(response.TagName)
     THEN [tag |-> <<>>,
           err |-> Errorf("parsing JSON response",
                          <<"missing 'field tag_name'">>)]
     ELSE [tag |-> response.TagName, err |-> Nil]

\* Lines 35-53: what GitHubLatest returns once client.Do has returned a
\* response with this status whose body is what the server sent.
HandleResponse(url, status, sent) ==
  IF status = StatusNotFound
  THEN [tag |-> <<>>, err |-> Errorf("no release found at", url)]
  ELSE IF sent.doc.top = "stalled"
  THEN [tag |-> <<>>,
        err |-> Errorf("parsing JSON response", <<"context deadline exceeded">>)]
  ELSE LET response == Decode(Wire(sent))
       IN IF response.err # "nil"
          THEN [tag |-> <<>>,
                err |-> Errorf("parsing JSON response", <<response.err>>)]
          ELSE IF response.TagName = <<>>
          THEN [tag |-> <<>>,
                err |-> Errorf("parsing JSON response",
                               <<"missing 'field tag_name'">>)]
          ELSE [tag |-> response.TagName, err |-> Nil]

InitFetch ==
  /\ gpc = "start"
  /\ owner \in Owners
  /\ repo \in Repos
  /\ requests = 0
  /\ resp = NoResp
  /\ tag = <<>>
  /\ err = Nil
  /\ CompareIdle

\* Lines 19-30: build the URL and the request; return the error if that
\* fails, else enter client.Do, which sends the GET.
Start ==
  /\ gpc = "start"
  /\ IF BadUrl(ApiUrl(owner, repo))
     THEN /\ err' = Errorf("create http request", <<"invalid URL">>)
          /\ gpc' = "done"
          /\ UNCHANGED requests
     ELSE /\ requests' = requests + 1
          /\ gpc' = "waiting"
          /\ UNCHANGED err
  /\ UNCHANGED <<owner, repo, resp, tag, cvars>>

\* TransportError that sends the request again instead of returning.
TransportErrorRetry ==
  /\ gpc = "waiting"
  /\ requests < RedirectLimit + 2
  /\ requests' = requests + 1
  /\ err' = Errorf("http client Do", <<"transport">>)
  /\ UNCHANGED <<gpc, owner, repo, resp, tag, cvars>>

\* client.Do fails (connection refused, reset, DNS, TLS ...): lines 31-33.
TransportError ==
  /\ gpc = "waiting"
  /\ err' = Errorf("http client Do", <<"transport">>)
  /\ gpc' = "done"
  /\ UNCHANGED <<owner, repo, requests, resp, tag, cvars>>

\* The 5 s deadline of ctx passes while client.Do waits: lines 22, 31-33.
Timeout ==
  /\ gpc = "waiting"
  /\ err' = Errorf("http client Do", <<"context deadline exceeded">>)
  /\ gpc' = "done"
  /\ UNCHANGED <<owner, repo, requests, resp, tag, cvars>>

\* The server answers 3xx with a Location: client.Do sends a GET to the new
\* location, unless the redirect policy stops it, and then Do fails.
Redirect ==
  /\ gpc = "waiting"
  /\ IF requests < RedirectLimit
     THEN /\ requests' = requests + 1
          /\ UNCHANGED <<gpc, err>>
     ELSE /\ err' = Errorf("http client Do", <<"stopped after 10 redirects">>)
          /\ gpc' = "done"
          /\ UNCHANGED requests
  /\ UNCHANGED <<owner, repo, resp, tag, cvars>>

\* client.Do returns a response; lines 34-53 run to the return.
Response ==
  /\ gpc = "waiting"
  /\ \E status \in Statuses, sent \in Docs :
       LET out == HandleResponse(ApiUrl(owner, repo), status, sent)
       IN /\ resp' = [status |-> status, sent |-> sent]
          /\ tag' = out.tag
          /\ err' = out.err
  /\ gpc' = "done"
  /\ UNCHANGED <<owner, repo, requests, cvars>>

NextFetch ==
  \/ Start
  \/ TransportError
  \/ Timeout
  \/ Redirect
  \/ Response

SpecFetch == InitFetch /\ [][NextFetch]_vars

\* The code runs on (Start) and the context's timer fires (Timeout); the
\* network promises nothing.
SpecFetchFair == SpecFetch /\ WF_vars(Start) /\ WF_vars(Timeout)

\* ---------------------------------------------------------- whole package
Init == InitCompare \/ InitFetch

Next == NextCompare \/ NextFetch

Spec == Init /\ [][Next]_vars

\* ===================================================================
\* Reference notions the properties are stated with. They are defined by
\* splitting the string, independently of the scanning parser above.

Letters == {"V", "a", "b", "v"}

\* 0-based index of the first occurrence of c in s, or Len(s) if none.
RECURSIVE IndexOf(_, _, _)
IndexOf(s, c, i) ==
  IF i >= Len(s) \/ At(s, i) = c THEN i ELSE IndexOf(s, c, i + 1)

\* The fields of s between separators c (a string with n separators has n+1
\* fields, some possibly empty).
RECURSIVE Split(_, _)
Split(s, c) ==
  LET i == IndexOf(s, c, 0)
  IN IF i >= Len(s) THEN <<s>>
     ELSE <<Upto(s, i)>> \o Split(From(s, i + 1), c)

AllIn(s, set) == \A i \in DOMAIN s : s[i] \in set

DigitSet == {DigitChars[i] : i \in DOMAIN DigitChars}

\* A decimal numeral without leading zeros.
Numeral(s) == s # <<>> /\ AllIn(s, DigitSet) /\ (Len(s) = 1 \/ s[1] # "0")

\* The value of a decimal numeral.
DigitVal(c) == (CHOOSE i \in DOMAIN DigitChars : DigitChars[i] = c) - 1

RECURSIVE NumVal(_)
NumVal(s) ==
  IF s = <<>> THEN 0
  ELSE 10 * NumVal(Upto(s, Len(s) - 1)) + DigitVal(s[Len(s)])

\* The string without its build metadata (everything from the first "+").
StripBuild(v) == Upto(v, IndexOf(v, "+", 0))

HasBuild(v) == IndexOf(v, "+", 0) < Len(v)

BuildOf(v) == From(v, IndexOf(v, "+", 0) + 1)

\* The string without prerelease and build metadata.
CoreOf(v) == Upto(StripBuild(v), IndexOf(StripBuild(v), "-", 0))

HasPre(v) == IndexOf(StripBuild(v), "-", 0) < Len(StripBuild(v))

\* The prerelease without its hyphen (meaningful when HasPre).
PreOf(v) == From(StripBuild(v), IndexOf(StripBuild(v), "-", 0) + 1)

PreIdentOk(id) ==
  /\ id # <<>>
  /\ AllIn(id, DigitSet \cup Letters \cup {"-"})
  /\ (AllIn(id, DigitSet) => Numeral(id))

BuildIdentOk(id) == id # <<>> /\ AllIn(id, DigitSet \cup Letters \cup {"-"})

\* The shape of a version string: with or without a mandatory "v", with or
\* without the shorthands vMAJOR and vMAJOR.MINOR (which take no suffix).
Form(v, prefixOptional, shortAllowed) ==
  LET hasV == v # <<>> /\ v[1] = "v"
      body == IF hasV THEN Tail(v) ELSE v
      plus == IndexOf(body, "+", 0)
      main == Upto(body, plus)
      hyphen == IndexOf(main, "-", 0)
      nums == Split(Upto(main, hyphen), ".")
      pre == Split(From(main, hyphen + 1), ".")
      bld == Split(From(body, plus + 1), ".")
  IN /\ hasV \/ prefixOptional
     /\ Len(nums) = 3 \/ (shortAllowed /\ Len(nums) \in {1, 2})
     /\ \A i \in DOMAIN nums : Numeral(nums[i])
     /\ hyphen < Len(main) =>
          Len(nums) = 3 /\ \A i \in DOMAIN pre : PreIdentOk(pre[i])
     /\ plus < Len(body) =>
          Len(nums) = 3 /\ \A i \in DOMAIN bld : BuildIdentOk(bld[i])

\* What the specification says Compare accepts.
SpecForm(v) == Form(v, TRUE, FALSE)

\* What Compare accepts.
GoForm(v) == Form(v, FALSE, TRUE)

\* <<major, minor, patch>> of a well-formed version, as numbers; a missing
\* minor or patch counts as 0.
Triple(v) ==
  LET nums == Split(CoreOf(IF v # <<>> /\ v[1] = "v" THEN Tail(v) ELSE v), ".")
  IN [i \in 1..3 |-> IF i <= Len(nums) THEN NumVal(nums[i]) ELSE 0]

\* Numeric order of two triples: major first, then minor, then patch.
TripleOrder(a, b) ==
  IF a[1] # b[1] THEN (IF a[1] < b[1] THEN -1 ELSE 1)
  ELSE IF a[2] # b[2] THEN (IF a[2] < b[2] THEN -1 ELSE 1)
  ELSE IF a[3] # b[3] THEN (IF a[3] < b[3] THEN -1 ELSE 1)
  ELSE 0

Returned == pc = "done"

\* ------------------------------------------------------------------ C1
\* C1: whenever both inputs pass validation, Compare returns a nil error and
\* a result in {-1, 0, +1}; if the two versions differ in major, minor or
\* patch the result is the numeric order of <<major, minor, patch>> (major
\* first, then minor, then patch), and if they agree in all three and in the
\* prerelease the result is 0.
C1_NumericPrecedence ==
  Returned /\ IsValid(curV) /\ IsValid(latestV) =>
    /\ cmpErr = Nil
    /\ cmp \in {-1, 0, 1}
    /\ Triple(curV) # Triple(latestV) =>
         cmp = TripleOrder(Triple(curV), Triple(latestV))
    /\ Triple(curV) = Triple(latestV)
         /\ HasPre(curV) = HasPre(latestV) /\ PreOf(curV) = PreOf(latestV) =>
         cmp = 0

\* A two-digit major beats a larger-looking one-digit major (v10.x > v5.x).
C1_Witness ==
  /\ Returned
  /\ cmpErr = Nil
  /\ cmp = 1
  /\ Triple(curV)[1] >= 10
  /\ Triple(latestV)[1] \in 2..9

\* ------------------------------------------------------------------ C2
\* C2 (as stated): Compare fails exactly when one of its inputs is not of
\* the form [v]MAJOR.MINOR.PATCH[-prerelease][+build], the "v" optional.
C2_AsStated ==
  Returned => (cmpErr # Nil <=> ~SpecForm(curV) \/ ~SpecForm(latestV))

\* C2 (amended): Compare fails exactly when one of its inputs is not of the
\* form vMAJOR[.MINOR[.PATCH[-prerelease][+build]]], the "v" mandatory.
C2_MandatoryPrefix ==
  Returned => (cmpErr # Nil <=> ~GoForm(curV) \/ ~GoForm(latestV))

\* A MAJOR.MINOR.PATCH version without the "v" has been rejected as the
\* installed version, the latest version being a vMAJOR.MINOR.PATCH one.
C2_Witness ==
  /\ Returned
  /\ SpecForm(curV)
  /\ ~GoForm(curV)
  /\ GoForm(latestV)
  /\ SpecForm(latestV)
  /\ cmpErr.kind = "installed version is not a valid semver"

\* ------------------------------------------------------------------ C3
\* C3: when Compare fails, the error names the input that failed and carries
\* that string: the installed version whenever it is malformed (even if the
\* latest is malformed too), the latest version when only it is malformed;
\* the error never names a well-formed input.
C3_ErrorNamesOffender ==
  Returned =>
    /\ ~GoForm(curV) =>
         /\ cmpErr.kind = "installed version is not a valid semver"
         /\ cmpErr.names = curV
    /\ GoForm(curV) /\ ~GoForm(latestV) =>
         /\ cmpErr.kind = "latest version is not a valid semver"
         /\ cmpErr.names = latestV
    /\ cmpErr.kind = "installed version is not a valid semver" => ~GoForm(curV)
    /\ cmpErr.kind = "latest version is not a valid semver" => ~GoForm(latestV)

\* Both inputs malformed and different: the installed one is reported.
C3_Witness ==
  /\ Returned
  /\ ~GoForm(curV)
  /\ ~GoForm(latestV)
  /\ curV # latestV
  /\ cmpErr.kind = "installed version is not a valid semver"
  /\ cmpErr.names = curV

\* ------------------------------------------------------------------ C4
\* C4: a prerelease vX.Y.Z-pre compared with a version that has the same
\* major, minor and patch and no prerelease gives -1, and the other way
\* round +1.
C4_PrereleaseBeforeRelease ==
  Returned /\ IsValid(curV) /\ IsValid(latestV)
    /\ Triple(curV) = Triple(latestV) =>
    /\ HasPre(curV) /\ ~HasPre(latestV) => cmp = -1 /\ cmpErr = Nil
    /\ ~HasPre(curV) /\ HasPre(latestV) => cmp = 1 /\ cmpErr = Nil

C4_Witness ==
  /\ Returned
  /\ IsValid(curV)
  /\ IsValid(latestV)
  /\ Triple(curV) = Triple(latestV)
  /\ HasPre(curV)
  /\ latestV = CoreOf(latestV)
  /\ Len(Split(latestV, ".")) = 3
  /\ cmp = -1

\* ------------------------------------------------------------------ C5
\* C5: the result of Compare is the order of the two versions with their
\* build metadata removed, so that adding, removing or changing build
\* metadata on either side never changes it; two versions that differ only
\* in build metadata compare as 0.
C5_BuildIgnored ==
  Returned /\ IsValid(curV) /\ IsValid(latestV) =>
    /\ cmpErr = Nil
    /\ IsValid(StripBuild(curV))
    /\ IsValid(StripBuild(latestV))
    /\ cmp = semverCompare(StripBuild(curV), StripBuild(latestV))
    /\ StripBuild(curV) = StripBuild(latestV) => cmp = 0

C5_Witness ==
  /\ Returned
  /\ cmpErr = Nil
  /\ HasBuild(curV)
  /\ HasBuild(latestV)
  /\ curV # latestV
  /\ StripBuild(curV) = StripBuild(latestV)
  /\ cmp = 0

\* ----------------------------------------------------------------- C10
\* C10: on well-formed inputs Compare(a, b) = -Compare(b, a) and
\* Compare(a, a) = 0, and the call succeeds for (a, b) exactly when both are
\* well formed, hence exactly when it succeeds for (b, a).
C10_Antisymmetric ==
  Returned =>
    /\ cmpErr = Nil <=> GoForm(curV) /\ GoForm(latestV)
    /\ cmpErr = Nil => cmp = 0 - semverCompare(latestV, curV)
    /\ cmpErr = Nil /\ curV = latestV => cmp = 0

\* Two different prereleases of the same version, the longer one installed.
C10_Witness ==
  /\ Returned
  /\ cmpErr = Nil
  /\ cmp = 1
  /\ HasPre(curV)
  /\ HasPre(latestV)
  /\ Triple(curV) = Triple(latestV)
  /\ Len(PreOf(curV)) > Len(PreOf(latestV))

\* ===================================================================
\* GitHubLatest

Fetched == gpc = "done" /\ resp.status # 0

\* The body is a complete, well-formed JSON text.
ValidJson(sent) == sent.damage = "none" /\ sent.doc.top \in {"obj", "val"}

\* The members of the body's top-level object whose name is tag_name,
\* compared with or without regard to letter case.
ExactTagMembers(sent) ==
  {i \in DOMAIN sent.doc.members : sent.doc.members[i].key = TagKey}

FoldedTagMembers(sent) ==
  {i \in DOMAIN sent.doc.members :
     \A j \in DOMAIN TagKey :
       /\ Len(sent.doc.members[i].key) = Len(TagKey)
       /\ sent.doc.members[i].key[j] \in
            {TagKey[j], IF TagKey[j] = "t" THEN "T"
                        ELSE IF TagKey[j] = "n" THEN "N" ELSE TagKey[j]}}

NonEmptyString(val) == val.k = "str" /\ val.s # <<>>

\* ------------------------------------------------------------------ C6
\* C6: a response with status 404 makes GitHubLatest return the error "no
\* release found at <url>" (the URL built from owner and repo) and the empty
\* tag, whatever the body; and that error is returned for status 404 only.
C6_NotFound ==
  gpc = "done" =>
    /\ resp.status = 404 =>
         /\ err.kind = "no release found at"
         /\ err.names = ApiUrl(owner, repo)
         /\ tag = <<>>
    /\ err.kind = "no release found at" => resp.status = 404

\* A 404 whose body would have decoded to a tag.
C6_Witness ==
  /\ Fetched
  /\ resp.status = 404
  /\ ValidJson(resp.sent)
  /\ resp.sent.doc.top = "obj"
  /\ Len(resp.sent.doc.members) = 1
  /\ resp.sent.doc.members[1].key = TagKey
  /\ NonEmptyString(resp.sent.doc.members[1].val)
  /\ err.kind = "no release found at"

\* ------------------------------------------------------------------ C7
\* C7: for a response other than 404, GitHubLatest fails with a "parsing
\* JSON response" error and the empty tag whenever the body is not valid
\* JSON, or is valid JSON with no tag_name member (in any letter case), or
\* with tag_name members that are all the empty string; and it never
\* returns the empty tag with a nil error.
C7_ParseError ==
  Fetched /\ resp.status # 404 =>
    /\ \/ ~ValidJson(resp.sent)
       \/ FoldedTagMembers(resp.sent) = {}
       \/ \A i \in FoldedTagMembers(resp.sent) :
            resp.sent.doc.members[i].val = Val("str", <<>>)
       => err.kind = "parsing JSON response" /\ tag = <<>>
    /\ ~(tag = <<>> /\ err = Nil)

\* ------------------------------------------------------------------ C8
\* C8 (as stated): for a response other than 404 whose body is well-formed
\* JSON holding a member tag_name (just one with exactly that name) that is
\* a non-empty string T, GitHubLatest returns exactly T and a nil error.
C8_AsStated ==
  Fetched /\ resp.status # 404 /\ ValidJson(resp.sent)
    /\ Cardinality(ExactTagMembers(resp.sent)) = 1 =>
    \A i \in ExactTagMembers(resp.sent) :
      NonEmptyString(resp.sent.doc.members[i].val) =>
        tag = resp.sent.doc.members[i].val.s /\ err = Nil

\* C8 (amended): for a response other than 404 whose body is a well-formed
\* JSON object in which exactly one member is named tag_name (in any letter
\* case) and that member is a non-empty string T, GitHubLatest returns
\* exactly T, unchanged, and a nil error.
C8_Verbatim ==
  Fetched /\ resp.status # 404 /\ ValidJson(resp.sent)
    /\ Cardinality(FoldedTagMembers(resp.sent)) = 1 =>
    \A i \in FoldedTagMembers(resp.sent) :
      NonEmptyString(resp.sent.doc.members[i].val) =>
        tag = resp.sent.doc.members[i].val.s /\ err = Nil

\* A tag that is no semver string (leading blank, no "v") came back as is.
C8_Witness ==
  /\ Fetched
  /\ resp.status = 200
  /\ ValidJson(resp.sent)
  /\ Cardinality(FoldedTagMembers(resp.sent)) = 1
  /\ tag = TagB
  /\ ~IsValid(tag)
  /\ err = Nil

====
